---- MODULE Spec2Model ----
(***************************************************************************)
(* Model of docs/generate_service_docs.py: the Go function extractor       *)
(* (extract_go_functions), the file categorizer (categorize_service_file)  *)
(* and the aggregation loop (scan_service_directory).                      *)
(*                                                                         *)
(* A Python str is a sequence of one-character strings; Python indices are *)
(* kept 0-based through At.  Two specifications are given:                 *)
(*   SpecExtract  one run of extract_go_functions over any bounded text,   *)
(*                one action per iteration of its outer while loop;        *)
(*   Spec         one run of scan_service_directory over any bounded tree, *)
(*                one action per file that os.walk yields.                 *)
(***************************************************************************)
EXTENDS Integers, Sequences, FiniteSets, TLC

VARIABLES
    content,     \* extract_go_functions: the file it is given
    lines,       \* extract_go_functions: content.split('\n')
    i,           \* extract_go_functions: index of the outer loop
    functions,   \* the list extract_go_functions builds and returns
    pc,          \* where the run stands
    tree,        \* scan_service_directory: the files under service_dir
    remaining,   \* scan_service_directory: files os.walk has yet to yield
    categories,  \* scan_service_directory: category -> rel_path -> records
    file_path,   \* scan_service_directory: path of the file last visited
    category     \* scan_service_directory: category of the file last visited

scanVars == <<tree, remaining, categories, file_path, category>>
vars == <<content, lines, i, functions, pc,
          tree, remaining, categories, file_path, category>>

(***************************************************************************)
(* Bounds of the model.                                                    *)
(***************************************************************************)
\* The longest text, in lines, that SpecExtract reads.
MaxLines == 4
\* The largest number of files in the tree that Spec walks.
MaxFiles == 2

(***************************************************************************)
(* Python str primitives.                                                  *)
(***************************************************************************)
At(seq, idx) == seq[idx + 1]

\* str.isspace() and the regex class \s, on the characters of the model
\* (a line never holds "\n": the text is split on it).
IsSpace(c) == c \in {" ", "\t", "\r", "\f"}

\* A variant of IsUpper: the class under re.IGNORECASE.
IsUpper_IgnoreCase(c) ==
    c \in {"A", "B", "C", "D", "E", "F", "G", "H", "I", "J", "K", "L", "M",
           "N", "O", "P", "Q", "R", "S", "T", "U", "V", "W", "X", "Y", "Z",
           "a", "b", "c", "d", "e", "f", "g", "h", "i", "j", "k", "l", "m",
           "n", "o", "p", "q", "r", "s", "t", "u", "v", "w", "x", "y", "z"}

\* The regex class [A-Z].
IsUpper(c) ==
    c \in {"A", "B", "C", "D", "E", "F", "G", "H", "I", "J", "K", "L", "M",
           "N", "O", "P", "Q", "R", "S", "T", "U", "V", "W", "X", "Y", "Z"}

IsLower(c) ==
    c \in {"a", "b", "c", "d", "e", "f", "g", "h", "i", "j", "k", "l", "m",
           "n", "o", "p", "q", "r", "s", "t", "u", "v", "w", "x", "y", "z"}

IsDigit(c) == c \in {"0", "1", "2", "3", "4", "5", "6", "7", "8", "9"}

\* The regex class [a-zA-Z0-9].
IsAlnum(c) == IsUpper(c) \/ IsLower(c) \/ IsDigit(c)

\* The first index at or after k of a character that is not whitespace
\* (Len(s) + 1 when there is none), and the last one at or before k (0).
RECURSIVE FirstNonSpace(_, _)
FirstNonSpace(s, k) ==
    IF k <= Len(s) /\ IsSpace(s[k]) THEN FirstNonSpace(s, k + 1) ELSE k

RECURSIVE LastNonSpace(_, _)
LastNonSpace(s, k) ==
    IF k >= 1 /\ IsSpace(s[k]) THEN LastNonSpace(s, k - 1) ELSE k

\* str.lstrip()
LStrip(s) == SubSeq(s, FirstNonSpace(s, 1), Len(s))

\* str.rstrip()
RStrip(s) == SubSeq(s, 1, LastNonSpace(s, Len(s)))

\* str.strip()
Strip(s) == SubSeq(s, FirstNonSpace(s, 1), LastNonSpace(s, Len(s)))

\* str.startswith(p)
StartsWith(s, p) == Len(s) >= Len(p) /\ SubSeq(s, 1, Len(p)) = p

\* str.endswith(p)
EndsWith(s, p) == Len(s) >= Len(p) /\ SubSeq(s, Len(s) - Len(p) + 1, Len(s)) = p

\* str.count(c) for a one-character c
RECURSIVE CountFrom(_, _, _)
CountFrom(s, c, k) ==
    IF k > Len(s) THEN 0 ELSE (IF s[k] = c THEN 1 ELSE 0) + CountFrom(s, c, k + 1)

Count(s, c) == CountFrom(s, c, 1)

\* c in s, for a one-character c
HasChar(s, c) == \E n \in 1..Len(s) : s[n] = c

\* sub in s
Contains(s, sub) ==
    \E n \in 0..(Len(s) - Len(sub)) : SubSeq(s, n + 1, n + Len(sub)) = sub

\* s[n:]
From(s, n) == SubSeq(s, n + 1, Len(s))

\* content.split('\n'): always at least one line.
RECURSIVE SplitFrom(_, _, _)
SplitFrom(s, k, start) ==
    IF k > Len(s) THEN <<SubSeq(s, start, k - 1)>>
    ELSE IF s[k] = "\n" THEN <<SubSeq(s, start, k - 1)>> \o SplitFrom(s, k + 1, k + 1)
    ELSE SplitFrom(s, k + 1, start)

SplitLines(s) == SplitFrom(s, 1, 1)

\* sep.join(parts)
RECURSIVE Join(_, _)
Join(parts, sep) ==
    IF parts = <<>> THEN <<>>
    ELSE IF Len(parts) = 1 THEN parts[1]
    ELSE parts[1] \o sep \o Join(Tail(parts), sep)

\* re.sub(r'\s+', ' ', s): every maximal whitespace run becomes one space.
RECURSIVE CollapseSpace(_)
CollapseSpace(s) ==
    IF s = <<>> THEN <<>>
    ELSE IF IsSpace(Head(s))
         THEN <<" ">> \o CollapseSpace(LStrip(s))
         ELSE <<Head(s)>> \o CollapseSpace(Tail(s))

\* re.sub(r'\s*{\s*$', '', s): the pattern matches only a '{' that is followed
\* by nothing but whitespace up to the end, together with the whitespace
\* before it; without such a match s is returned unchanged.
StripTrailingBrace(s) ==
    LET t == RStrip(s)
    IN IF t # <<>> /\ t[Len(t)] = "{" THEN RStrip(SubSeq(t, 1, Len(t) - 1)) ELSE s

\* The longest prefix of s whose characters are in [a-zA-Z0-9].
RECURSIVE AlnumPrefix(_)
AlnumPrefix(s) ==
    IF s # <<>> /\ IsAlnum(Head(s)) THEN <<Head(s)>> \o AlnumPrefix(Tail(s)) ELSE <<>>

(***************************************************************************)
(* extract_go_functions                                                    *)
(***************************************************************************)
\* re.match(r'func\s+[A-Z]', line)
MatchFuncUpper(line) ==
    /\ StartsWith(line, <<"f", "u", "n", "c">>)
    /\ LET rest == From(line, 4)
           name == LStrip(rest)
       IN /\ Len(name) < Len(rest)
          /\ name # <<>>
          /\ IsUpper(Head(name))

\* line.startswith('func ') and re.match(r'func\s+[A-Z]', line)
IsCandidate(line) == StartsWith(line, <<"f", "u", "n", "c", " ">>) /\ MatchFuncUpper(line)

\* re.match(r'func\s+([A-Z][a-zA-Z0-9]*)', full_signature): whether it matches
\* and its group 1.
NameMatch(full_signature) ==
    IF MatchFuncUpper(full_signature)
    THEN [matched |-> TRUE, name |-> AlnumPrefix(LStrip(From(full_signature, 4)))]
    ELSE [matched |-> FALSE, name |-> <<>>]

IsCommentLine(raw) == StartsWith(Strip(raw), <<"/", "/">>)
IsBlankLine(raw) == Strip(raw) = <<>>

\* lines[j].strip()[2:].strip()
DocLine(raw) == Strip(From(Strip(raw), 2))

\* A variant of InsertDoc: docs.append(doc_line).
InsertDoc_Append(docs, doc_line) == Append(docs, doc_line)

\* How a documentation line joins the buffer: docs.insert(0, doc_line).
InsertDoc(docs, doc_line) == <<doc_line>> \o docs

\* A variant of BackwardDocs: the loop passes over every line that is not a
\* comment and ends only at the start of the file.
RECURSIVE BackwardDocs_PassCode(_, _, _)
BackwardDocs_PassCode(ls, j, docs) ==
    IF j >= 0
    THEN BackwardDocs_PassCode(ls, j - 1,
                               IF IsCommentLine(At(ls, j))
                               THEN InsertDoc(docs, DocLine(At(ls, j)))
                               ELSE docs)
    ELSE docs

\* A variant of BackwardDocs: the loop also ends at a blank line.
RECURSIVE BackwardDocs_StopAtBlank(_, _, _)
BackwardDocs_StopAtBlank(ls, j, docs) ==
    IF j >= 0 /\ IsCommentLine(At(ls, j))
    THEN BackwardDocs_StopAtBlank(ls, j - 1, InsertDoc(docs, DocLine(At(ls, j))))
    ELSE docs

\* The backward loop from j: comment lines are collected, blank lines are
\* passed over, any other line (or the start of the file) ends the loop.
RECURSIVE BackwardDocs(_, _, _)
BackwardDocs(ls, j, docs) ==
    IF j >= 0 /\ (IsCommentLine(At(ls, j)) \/ IsBlankLine(At(ls, j)))
    THEN BackwardDocs(ls, j - 1,
                      IF IsCommentLine(At(ls, j))
                      THEN InsertDoc(docs, DocLine(At(ls, j)))
                      ELSE docs)
    ELSE docs

\* The peek after a line that leaves the parentheses balanced: the next line
\* that is not blank exists and starts with '{'.
RECURSIVE PeekBrace(_, _)
PeekBrace(ls, next_k) ==
    IF next_k < Len(ls) /\ Strip(At(ls, next_k)) = <<>>
    THEN PeekBrace(ls, next_k + 1)
    ELSE next_k < Len(ls) /\ StartsWith(Strip(At(ls, next_k)), <<"{">>)

\* The forward loop from k: signature_lines when the loop ends, and whether it
\* ended by one of its two breaks (closed) or by running off the file.
RECURSIVE ForwardScan(_, _, _, _, _, _)
ForwardScan(ls, start, k, signature_lines, paren_count, in_func) ==
    IF k >= Len(ls) THEN [signature_lines |-> signature_lines, closed |-> FALSE]
    ELSE
      LET curr_line == Strip(At(ls, k))
          inf == in_func \/ StartsWith(curr_line, <<"f", "u", "n", "c", " ">>)
          sl == Append(signature_lines, RStrip(At(ls, k)))
          pc2 == paren_count + Count(curr_line, "(") - Count(curr_line, ")")
      IN IF ~inf THEN ForwardScan(ls, start, k + 1, signature_lines, paren_count, inf)
         ELSE IF HasChar(curr_line, "{")
              THEN [signature_lines |-> sl, closed |-> TRUE]
         ELSE IF pc2 = 0 /\ k > start /\ PeekBrace(ls, k + 1)
              THEN [signature_lines |-> sl, closed |-> TRUE]
         ELSE ForwardScan(ls, start, k + 1, sl, pc2, inf)

\* ' '.join(signature_lines).strip()
FullSignature(signature_lines) == Strip(Join(signature_lines, <<" ">>))

\* A variant of CleanSignature: the second re.sub is missing.
CleanSignature_KeepBrace(full_signature) == CollapseSpace(full_signature)

\* The two re.sub calls that clean the signature.
CleanSignature(full_signature) == StripTrailingBrace(CollapseSpace(full_signature))

\* A variant of ExtractAt: a candidate whose forward scan runs off the end
\* of the file gives no record.
ExtractAt_SkipUnclosed(ls, idx) ==
    IF IsCandidate(Strip(At(ls, idx)))
    THEN LET docs == BackwardDocs(ls, idx - 1, <<>>)
             scan == ForwardScan(ls, idx, idx, <<>>, 0, FALSE)
             full_signature == FullSignature(scan.signature_lines)
             name_match == NameMatch(full_signature)
         IN IF name_match.matched /\ scan.closed
            THEN << [name |-> name_match.name,
                     signature |-> CleanSignature(full_signature),
                     documentation |-> docs,
                     line_number |-> idx + 1] >>
            ELSE <<>>
    ELSE <<>>

\* One iteration of the outer while loop at line idx: the records it appends.
ExtractAt(ls, idx) ==
    IF IsCandidate(Strip(At(ls, idx)))
    THEN LET docs == BackwardDocs(ls, idx - 1, <<>>)
             scan == ForwardScan(ls, idx, idx, <<>>, 0, FALSE)
             full_signature == FullSignature(scan.signature_lines)
             name_match == NameMatch(full_signature)
         IN IF name_match.matched
            THEN << [name |-> name_match.name,
                     signature |-> CleanSignature(full_signature),
                     documentation |-> docs,
                     line_number |-> idx + 1] >>
            ELSE <<>>
    ELSE <<>>

RECURSIVE ExtractFrom(_, _)
ExtractFrom(ls, idx) ==
    IF idx >= Len(ls) THEN <<>> ELSE ExtractAt(ls, idx) \o ExtractFrom(ls, idx + 1)

\* The whole function on a file: an unreadable file gives the empty list.
extract_go_functions(file) ==
    IF file.ok THEN ExtractFrom(SplitLines(file.text), 0) ELSE <<>>

(***************************************************************************)
(* The texts SpecExtract reads: every sequence of 1..MaxLines lines of the *)
(* catalogue, joined by newlines, and a file that cannot be read.          *)
(***************************************************************************)
\* the empty line
BlankLine == <<>>
\* a comment with blanks around the marker and the text:   //  Doc a
DocA == <<" ", " ", "/", "/", " ", " ", "D", "o", "c", " ", "a", " ">>
\* a comment without blanks: //b
DocB == <<"/", "/", "b">>
\* func Get(id int) {
OneLine == <<"f", "u", "n", "c", " ", "G", "e", "t", "(", "i", "d", " ", "i", "n", "t", ")", " ", "{">>
\* <TAB>func  Set(m I{})<TAB> {   with a trailing blank
BraceInside == <<"\t", "f", "u", "n", "c", " ", " ", "S", "e", "t", "(", "m", " ", "I", "{", "}", ")", "\t", " ", "{", " ">>
\* func get() {
LowerCase == <<"f", "u", "n", "c", " ", "g", "e", "t", "(", ")", " ", "{">>
\* func Put(
OpenParen == <<"f", "u", "n", "c", " ", "P", "u", "t", "(">>
\* x T)
CloseParen == <<"x", " ", "T", ")">>
\* {
BraceLine == <<"{">>

LineCatalog ==
    {BlankLine, DocA, DocB, OneLine, BraceInside, LowerCase, OpenParen,
     CloseParen, BraceLine}

Texts == UNION {[1..n -> LineCatalog] : n \in 1..MaxLines}

Unreadable == [ok |-> FALSE, text |-> <<>>]

\* A readable file holding the lines t.
FileOf(t) == [ok |-> TRUE, text |-> Join(t, <<"\n">>)]

(***************************************************************************)
(* SpecExtract: one call of extract_go_functions.                          *)
(***************************************************************************)
InitExtract ==
    /\ \/ \E t \in Texts : content = FileOf(t)
       \/ content = Unreadable
    /\ lines = <<>>
    /\ i = 0
    /\ functions = <<>>
    /\ pc = "open"
    /\ tree = <<>>
    /\ remaining = {}
    /\ categories = <<>>
    /\ file_path = <<>>
    /\ category = ""

\* open() and read() succeed: the text is split into lines.
ReadFile ==
    /\ pc = "open"
    /\ content.ok
    /\ lines' = SplitLines(content.text)
    /\ pc' = "scan"
    /\ UNCHANGED <<content, i, functions, scanVars>>

\* open() or read() raises: the function returns the empty list.
ReadError ==
    /\ pc = "open"
    /\ ~content.ok
    /\ pc' = "done"
    /\ UNCHANGED <<content, lines, i, functions, scanVars>>

\* One iteration of `while i < len(lines)`.
ScanLine ==
    /\ pc = "scan"
    /\ i < Len(lines)
    /\ functions' = functions \o ExtractAt(lines, i)
    /\ i' = i + 1
    /\ UNCHANGED <<content, lines, pc, scanVars>>

\* The loop ends: return functions.
Return ==
    /\ pc = "scan"
    /\ i >= Len(lines)
    /\ pc' = "done"
    /\ UNCHANGED <<content, lines, i, functions, scanVars>>

NextExtract == ReadFile \/ ReadError \/ ScanLine \/ Return

SpecExtract == InitExtract /\ [][NextExtract]_vars

(***************************************************************************)
(* SpecSignature: one call of extract_go_functions on a text made of       *)
(* declarations whose parameter list spans several lines.                  *)
(***************************************************************************)
\* m I{},
BraceParam == <<"m", " ", "I", "{", "}", ",">>
\* <tab>x T)  {
CloseAndBrace == <<"\t", "x", " ", "T", ")", " ", " ", "{">>

SignatureCatalog ==
    {BlankLine, OpenParen, BraceParam, CloseParen, CloseAndBrace, BraceLine}

SignatureTexts == UNION {[1..n -> SignatureCatalog] : n \in 1..MaxLines}

InitSignature ==
    /\ \/ \E t \in SignatureTexts : content = FileOf(t)
       \/ content = Unreadable
    /\ lines = <<>>
    /\ i = 0
    /\ functions = <<>>
    /\ pc = "open"
    /\ tree = <<>>
    /\ remaining = {}
    /\ categories = <<>>
    /\ file_path = <<>>
    /\ category = ""

SpecSignature == InitSignature /\ [][NextExtract]_vars

(***************************************************************************)
(* categorize_service_file                                                 *)
(***************************************************************************)
\* Path(file_path).parts: the segments between the separators.
RECURSIVE PartsOf(_, _, _)
PartsOf(s, k, start) ==
    LET part == IF start < k THEN <<SubSeq(s, start, k - 1)>> ELSE <<>>
    IN IF k > Len(s) THEN part
       ELSE IF s[k] = "/" THEN part \o PartsOf(s, k + 1, k + 1)
       ELSE PartsOf(s, k + 1, start)

Parts(path) == PartsOf(path, 1, 1)

\* str.rfind('.'): the 0-based index of the last '.', or -1.
RECURSIVE RFindFrom(_, _)
RFindFrom(name, k) ==
    IF k = 0 THEN -1 ELSE IF name[k] = "." THEN k - 1 ELSE RFindFrom(name, k - 1)

RFindDot(name) == RFindFrom(name, Len(name))

\* Path(file_path).stem: the last segment without its last suffix; a leading
\* or a trailing dot starts no suffix.
Stem(path) ==
    LET parts == Parts(path)
        name == IF parts = <<>> THEN <<>> ELSE parts[Len(parts)]
        dot == RFindDot(name)
    IN IF 0 < dot /\ dot < Len(name) - 1 THEN SubSeq(name, 1, dot) ELSE name

\* 'threat_pattern' in path_obj.parts
InThreatPattern(path) ==
    LET parts == Parts(path)
    IN \E n \in 1..Len(parts) : parts[n] = <<"t", "h", "r", "e", "a", "t", "_", "p", "a", "t", "t", "e", "r", "n">>

\* The dict category_map.
category_map ==
    (<<"c", "o", "n", "t", "r", "o", "l">> :> "Control Management") @@
    (<<"d", "o", "m", "a", "i", "n">> :> "Domain Management") @@
    (<<"i", "n", "s", "t", "a", "n", "c", "e">> :> "Instance Management") @@
    (<<"p", "r", "o", "d", "u", "c", "t">> :> "Product Management") @@
    (<<"t", "h", "r", "e", "a", "t">> :> "Threat Management") @@
    (<<"r", "e", "l", "a", "t", "i", "o", "n", "s", "h", "i", "p">> :> "Relationship Management") @@
    (<<"t", "a", "g">> :> "Tag Management") @@
    (<<"t", "h", "r", "e", "a", "t", "_", "r", "e", "s", "o", "l", "u", "t", "i", "o", "n">> :> "Threat Resolution Management")

\* A variant of MainCategory: the table key is looked for inside the name.
MainCategory_Substring(filename) ==
    IF \E key \in DOMAIN category_map : Contains(filename, key)
    THEN category_map[CHOOSE key \in DOMAIN category_map :
                          /\ Contains(filename, key)
                          /\ \A other \in DOMAIN category_map :
                                 Contains(filename, other) => Len(other) <= Len(key)]
    ELSE "Miscellaneous"

\* category_map.get(filename, 'Miscellaneous')
MainCategory(filename) ==
    IF filename \in DOMAIN category_map
    THEN category_map[filename]
    ELSE "Miscellaneous"

\* The branch taken for a file under threat_pattern.
ThreatPatternCategory(filename) ==
    IF Contains(filename, <<"p", "a", "t", "t", "e", "r", "n", "_", "c", "o", "n", "d", "i", "t", "i", "o", "n">>) THEN "Threat Pattern Conditions"
    ELSE IF Contains(filename, <<"i", "n", "s", "t", "a", "n", "c", "e", "_", "t", "h", "r", "e", "a", "t", "_", "p", "a", "t", "t", "e", "r", "n">>)
         THEN "Instance Threat Pattern Evaluation"
    ELSE "Threat Pattern Management"

\* A variant of categorize_service_file: the table is consulted first.
categorize_TableFirst(path) ==
    IF Stem(path) \in DOMAIN category_map THEN category_map[Stem(path)]
    ELSE IF InThreatPattern(path) THEN ThreatPatternCategory(Stem(path))
    ELSE "Miscellaneous"

categorize_service_file(path) ==
    LET filename == Stem(path)
    IN IF InThreatPattern(path)
       THEN ThreatPatternCategory(filename)
       ELSE MainCategory(filename)

(***************************************************************************)
(* scan_service_directory                                                  *)
(***************************************************************************)
\* The service_dir argument: main() passes <project root>/internal/service.
ServiceDir == <<"s", "e", "r", "v", "i", "c", "e">>

\* os.path.join(root, file), for a root that does not end in a separator.
PathJoin(root, file) == root \o <<"/">> \o file

\* A variant of RelPath: the file's name alone.
RelPath_BaseName(path) == LET parts == Parts(path) IN parts[Len(parts)]

\* os.path.relpath(file_path, service_dir), for a path below service_dir.
RelPath(path) == From(path, Len(ServiceDir) + 1)

\* file.endswith('.go') and not file.endswith('_test.go')
IsServiceFile(file) == EndsWith(file, <<".", "g", "o">>) /\ ~EndsWith(file, <<"_", "t", "e", "s", "t", ".", "g", "o">>)

EmptyDict == [x \in {} |-> <<>>]

\* d with d[key] = value set.
DictSet(d, key, value) ==
    [x \in DOMAIN d \cup {key} |-> IF x = key THEN value ELSE d[x]]

\* A variant of Aggregate: the `if functions:` test is missing.
Aggregate_NoGuard(cats, cat, rel_path, funcs) ==
    DictSet(cats, cat,
            DictSet(IF cat \in DOMAIN cats THEN cats[cat] ELSE EmptyDict,
                    rel_path, funcs))

\* A variant of Aggregate: the bucket is made anew for every file.
Aggregate_NewBucket(cats, cat, rel_path, funcs) ==
    IF funcs # <<>>
    THEN DictSet(cats, cat, DictSet(EmptyDict, rel_path, funcs))
    ELSE cats

\* The body of `if functions:`: the bucket is made when it is missing, and the
\* records are stored under the relative path.
Aggregate(cats, cat, rel_path, funcs) ==
    IF funcs # <<>>
    THEN DictSet(cats, cat,
                 DictSet(IF cat \in DOMAIN cats THEN cats[cat] ELSE EmptyDict,
                         rel_path, funcs))
    ELSE cats

\* sum(xs[e] for e in S)
RECURSIVE SumOver(_, _)
SumOver(S, f) ==
    IF S = {} THEN 0
    ELSE LET e == CHOOSE x \in S : TRUE IN f[e] + SumOver(S \ {e}, f)

\* total_functions of generate_html_documentation and of main.
TotalFunctions(cats) ==
    SumOver(DOMAIN cats,
            [c \in DOMAIN cats |->
                SumOver(DOMAIN cats[c], [p \in DOMAIN cats[c] |-> Len(cats[c][p])])])

(***************************************************************************)
(* The trees Spec walks: up to MaxFiles files of the catalogue, each with  *)
(* one of the contents.                                                    *)
(***************************************************************************)
SubArea == <<"s", "e", "r", "v", "i", "c", "e", "/", "t", "h", "r", "e", "a", "t", "_", "p", "a", "t", "t", "e", "r", "n">>
OtherDir == <<"s", "e", "r", "v", "i", "c", "e", "/", "t", "h", "r", "e", "a", "t", "_", "p", "a", "t", "t", "e", "r", "n", "s">>

Entry(root, file) == [root |-> root, file |-> file]

EntryCatalog ==
    {Entry(ServiceDir, <<"d", "o", "m", "a", "i", "n", ".", "g", "o">>),
     Entry(ServiceDir, <<"d", "o", "m", "a", "i", "n", "s", ".", "g", "o">>),
     Entry(ServiceDir, <<"d", "o", "m", "a", "i", "n", "_", "t", "e", "s", "t", ".", "g", "o">>),
     Entry(OtherDir, <<"d", "o", "m", "a", "i", "n", ".", "g", "o">>),
     Entry(SubArea, <<"d", "o", "m", "a", "i", "n", ".", "g", "o">>),
     Entry(SubArea, <<"p", "a", "t", "t", "e", "r", "n", "_", "c", "o", "n", "d", "i", "t", "i", "o", "n", ".", "g", "o">>),
     Entry(SubArea, <<"i", "n", "s", "t", "a", "n", "c", "e", "_", "t", "h", "r", "e", "a", "t", "_", "p", "a", "t", "t", "e", "r", "n", ".", "g", "o">>),
     Entry(SubArea, <<"i", "n", "s", "t", "a", "n", "c", "e", "_", "t", "h", "r", "e", "a", "t", "_", "p", "a", "t", "t", "e", "r", "n", "_", "c", "o", "n", "d", "i", "t", "i", "o", "n", ".", "g", "o">>)}

\* A comment and a lowercase function.
NoFunctions == [ok |-> TRUE, text |-> <<"/", "/", "n", "\n", "f", "u", "n", "c", " ", "h", "(", ")", " ", "{">>]
\* A documented exported function.
OneFunction == [ok |-> TRUE, text |-> <<"/", "/", "g", "\n", "f", "u", "n", "c", " ", "G", "(", ")", " ", "{">>]
\* Two exported functions with a closing brace between them.
TwoFunctions == [ok |-> TRUE, text |-> <<"f", "u", "n", "c", " ", "A", "(", ")", " ", "{", "\n", "}", "\n", "f", "u", "n", "c", " ", "B", "(", ")", " ", "{">>]

Contents == {Unreadable, NoFunctions, OneFunction, TwoFunctions}

Trees ==
    UNION {[es -> Contents] :
               es \in {S \in SUBSET EntryCatalog : Cardinality(S) <= MaxFiles}}

(***************************************************************************)
(* Spec: one call of scan_service_directory.  os.walk yields the files in  *)
(* the order the file system lists them; every order is admitted.          *)
(***************************************************************************)
Init ==
    /\ tree \in Trees
    /\ remaining = DOMAIN tree
    /\ categories = EmptyDict
    /\ file_path = <<>>
    /\ category = ""
    /\ functions = <<>>
    /\ pc = "walk"
    /\ content = Unreadable
    /\ lines = <<>>
    /\ i = 0

\* A variant of VisitFile: a file that cannot be read ends the walk, as an
\* exception leaving extract_go_functions would.
VisitFile_Abort(e) ==
    /\ pc = "walk"
    /\ e \in remaining
    /\ IsServiceFile(e.file)
    /\ LET path == PathJoin(e.root, e.file)
           cat == categorize_service_file(path)
           funcs == extract_go_functions(tree[e])
       IN /\ file_path' = path
          /\ category' = cat
          /\ functions' = funcs
          /\ categories' = Aggregate(categories, cat, RelPath(path), funcs)
    /\ remaining' = remaining \ {e}
    /\ pc' = IF tree[e].ok THEN "walk" ELSE "done"
    /\ UNCHANGED <<tree, content, lines, i>>

\* One iteration of `for file in files` whose name passes the filter.
VisitFile(e) ==
    /\ pc = "walk"
    /\ e \in remaining
    /\ IsServiceFile(e.file)
    /\ LET path == PathJoin(e.root, e.file)
           cat == categorize_service_file(path)
           funcs == extract_go_functions(tree[e])
       IN /\ file_path' = path
          /\ category' = cat
          /\ functions' = funcs
          /\ categories' = Aggregate(categories, cat, RelPath(path), funcs)
    /\ remaining' = remaining \ {e}
    /\ UNCHANGED <<tree, pc, content, lines, i>>

\* One iteration whose name fails the filter.
SkipFile(e) ==
    /\ pc = "walk"
    /\ e \in remaining
    /\ ~IsServiceFile(e.file)
    /\ remaining' = remaining \ {e}
    /\ UNCHANGED <<tree, categories, file_path, category, functions, pc,
                   content, lines, i>>

\* os.walk is exhausted: return categories.
ReturnCategories ==
    /\ pc = "walk"
    /\ remaining = {}
    /\ pc' = "done"
    /\ UNCHANGED <<tree, remaining, categories, file_path, category, functions,
                   content, lines, i>>

Next ==
    \/ \E e \in DOMAIN tree : VisitFile(e)
    \/ \E e \in DOMAIN tree : SkipFile(e)
    \/ ReturnCategories

Spec == Init /\ [][Next]_vars

(***************************************************************************)
(* Claims about extract_go_functions, stated on the returned list          *)
(* (pc = "done") and on the lines it was computed from.                    *)
(***************************************************************************)
Records == {functions[n] : n \in 1..Len(functions)}

\* The line a record was made from.
LineOf(r) == lines[r.line_number]

\* ' '.join(s.split()): the words of s, one space between them.
RECURSIVE Words(_, _)
Words(s, cur) ==
    IF s = <<>> THEN (IF cur = <<>> THEN <<>> ELSE <<cur>>)
    ELSE IF IsSpace(Head(s))
         THEN (IF cur = <<>> THEN <<>> ELSE <<cur>>) \o Words(Tail(s), <<>>)
         ELSE Words(Tail(s), Append(cur, Head(s)))

Normalized(s) == Join(Words(s, <<>>), <<" ">>)

\* The text of a line before its last '{'.
UpToFinalBrace(raw) ==
    LET last == CHOOSE n \in 1..Len(raw) :
                    raw[n] = "{" /\ \A m \in (n + 1)..Len(raw) : raw[m] # "{"
    IN SubSeq(raw, 1, last - 1)

\* A candidate line that holds its whole parameter list and ends in '{'.
SingleLineDecl(raw) ==
    /\ IsCandidate(Strip(raw))
    /\ EndsWith(Strip(raw), <<"{">>)
    /\ Count(raw, "(") = Count(raw, ")")

\* C1 as stated: the signature made from a single-line declaration contains
\* no '{' and is the line's text before its final brace, whitespace-normalized.
C1_NoBraceAtAll ==
    pc = "done" =>
        \A n \in 1..Len(lines) :
            SingleLineDecl(lines[n]) =>
                /\ \E r \in Records : r.line_number = n
                /\ \A r \in Records :
                       r.line_number = n =>
                           /\ ~HasChar(r.signature, "{")
                           /\ r.signature = Normalized(UpToFinalBrace(lines[n]))

\* C1 (amended): every single-line declaration ending in '{' yields a record
\* whose signature is the line's text before its final brace, with whitespace
\* runs collapsed and the ends trimmed; the signature keeps exactly the braces
\* that stand before the final one, so it contains no '{' when the final brace
\* is the only one of the line.
C1_SignatureUpToFinalBrace ==
    pc = "done" =>
        \A n \in 1..Len(lines) :
            SingleLineDecl(lines[n]) =>
                /\ \E r \in Records : r.line_number = n
                /\ \A r \in Records :
                       r.line_number = n =>
                           /\ r.signature = Normalized(UpToFinalBrace(lines[n]))
                           /\ Count(r.signature, "{") = Count(lines[n], "{") - 1
                           /\ (Count(lines[n], "{") = 1 => ~HasChar(r.signature, "{"))

\* A single-line declaration with one brace, and one with whitespace runs and
\* a brace inside its parameter list, have both been extracted.
C1_Witness ==
    /\ pc = "done"
    /\ \E r \in Records :
           SingleLineDecl(LineOf(r)) /\ Count(LineOf(r), "{") = 1
    /\ \E r \in Records :
           /\ SingleLineDecl(LineOf(r))
           /\ Count(LineOf(r), "{") = 2
           /\ r.signature # Strip(UpToFinalBrace(LineOf(r)))

IsDocOrBlank(raw) == IsCommentLine(raw) \/ IsBlankLine(raw)

\* The first index (0-based) of the run of comment and blank lines that ends
\* right above line idx; idx itself when the line above is neither.
RunStart(ls, idx) ==
    CHOOSE j \in 0..idx :
        /\ \A m \in j..(idx - 1) : IsDocOrBlank(At(ls, m))
        /\ j = 0 \/ ~IsDocOrBlank(At(ls, j - 1))

\* The text of a comment line: the marker removed, both ends trimmed.
CommentText(raw) == Strip(From(Strip(raw), 2))

RECURSIVE CommentTexts(_)
CommentTexts(ls) ==
    IF ls = <<>> THEN <<>>
    ELSE (IF IsCommentLine(Head(ls)) THEN <<CommentText(Head(ls))>> ELSE <<>>)
         \o CommentTexts(Tail(ls))

\* C2: the backward scan passes over any number of blank lines: a record's
\* documentation is made of every comment line of the whole run of comment and
\* blank lines above its declaration, which ends only at a line that is
\* neither, or at the start of the file.
C2_BlankLinesDoNotStopScan ==
    pc = "done" =>
        \A r \in Records :
            LET idx == r.line_number - 1
            IN r.documentation =
                   CommentTexts(SubSeq(lines, RunStart(lines, idx) + 1, idx))

\* A comment, then two blank lines, then the declaration it documents; the
\* four-line text comment, blank, comment, declaration is reached as well.
C2_Witness ==
    /\ pc = "done"
    /\ \E r \in Records :
           /\ r.line_number = 4
           /\ IsCommentLine(lines[1])
           /\ IsBlankLine(lines[2])
           /\ IsBlankLine(lines[3])
           /\ Len(r.documentation) = 1

RECURSIVE Depth(_, _, _)
Depth(ls, idx, k) ==
    IF k < idx THEN 0
    ELSE Depth(ls, idx, k - 1) + Count(At(ls, k), "(") - Count(At(ls, k), ")")

\* A candidate whose signature is never closed: from its line to the end of
\* the file no line holds '{' and the depth never returns to zero.
Unclosed(ls, idx) ==
    /\ IsCandidate(Strip(At(ls, idx)))
    /\ \A k \in idx..(Len(ls) - 1) :
           ~HasChar(At(ls, k), "{") /\ Depth(ls, idx, k) # 0

\* C4 as stated: a candidate whose signature is never closed before the end of
\* the file yields no record.
C4_UnclosedYieldsNoRecord ==
    pc = "done" =>
        \A r \in Records : ~Unclosed(lines, r.line_number - 1)

CapitalLetters ==
    {"A", "B", "C", "D", "E", "F", "G", "H", "I", "J", "K", "L", "M",
     "N", "O", "P", "Q", "R", "S", "T", "U", "V", "W", "X", "Y", "Z"}

\* A line that declares a function whose name starts with a lowercase letter.
LowerCaseDecl(raw) ==
    LET line == Strip(raw)
    IN /\ StartsWith(line, <<"f", "u", "n", "c">>)
       /\ Len(line) > 4
       /\ IsSpace(line[5])
       /\ LStrip(From(line, 4)) # <<>>
       /\ IsLower(Head(LStrip(From(line, 4))))

\* C5: every record's name begins with an uppercase letter, and a line that
\* declares a lowercase-leading function never produces a record.
C5_NamesAreExported ==
    \A r \in Records :
        /\ r.name # <<>>
        /\ r.name[1] \in CapitalLetters
        /\ ~LowerCaseDecl(LineOf(r))

\* A file holding a lowercase declaration and an exported one was scanned to
\* its end, and only the exported one gave a record.
C5_Witness ==
    /\ pc = "done"
    /\ \E n \in 1..Len(lines) : LowerCaseDecl(lines[n])
    /\ functions # <<>>

(***************************************************************************)
(* Claims about categorize_service_file and scan_service_directory, stated *)
(* on the index built so far and on the file last visited.                 *)
(***************************************************************************)
\* What each content and each catalogue entry gives, computed once.
RecordsIn == [c \in Contents |-> extract_go_functions(c)]
CategoryOf == [e \in EntryCatalog |-> categorize_service_file(PathJoin(e.root, e.file))]

\* An entry's path relative to the service directory.
RelOf(e) ==
    IF e.root = ServiceDir THEN e.file
    ELSE From(e.root, Len(ServiceDir) + 1) \o <<"/">> \o e.file

\* The files processed so far, and those of them that gave records.
Processed == {e \in DOMAIN tree \ remaining : IsServiceFile(e.file)}
Contributing(es) == {e \in es : IsServiceFile(e.file) /\ RecordsIn[tree[e]] # <<>>}

\* C6: the index has no empty category bucket and no file entry with an empty
\* record list; a processed file without records has no entry in any bucket.
C6_NoEmptyBuckets ==
    /\ \A c \in DOMAIN categories :
           /\ DOMAIN categories[c] # {}
           /\ \A p \in DOMAIN categories[c] : categories[c][p] # <<>>
    /\ \A e \in Processed :
           RecordsIn[tree[e]] = <<>> =>
               \A c \in DOMAIN categories : RelOf(e) \notin DOMAIN categories[c]

\* A file that maps to a table category but holds no exported function was
\* processed after a file with records: its category has no bucket.
C6_Witness ==
    /\ categories # EmptyDict
    /\ category = "Domain Management"
    /\ functions = <<>>
    /\ "Domain Management" \notin DOMAIN categories
    /\ \E e \in Processed : tree[e] = NoFunctions /\ CategoryOf[e] = category

ThreatPatternLabels ==
    {categorize_service_file(PathJoin(e.root, e.file)) :
         e \in {x \in EntryCatalog : InThreatPattern(x.root)}}

\* C7 as stated: the files of the sub-area are spread over four labels, three
\* for recognized stems and a fourth for the rest.
C7_FourSubAreaLabels ==
    pc = "done" => Cardinality(ThreatPatternLabels) = 4

\* C7 (amended): a file with a path segment threat_pattern is classified by
\* its stem alone, whatever the base-name table holds: a stem containing
\* pattern_condition gives the first label, otherwise a stem containing
\* instance_threat_pattern gives the second, and every other stem gives the
\* third, catch-all label.
C7_SubAreaByStem ==
    (file_path # <<>> /\ InThreatPattern(file_path)) =>
        LET stem == Stem(file_path)
        IN /\ category \in {"Threat Pattern Conditions",
                            "Instance Threat Pattern Evaluation",
                            "Threat Pattern Management"}
           /\ category = "Threat Pattern Conditions"
                  <=> Contains(stem, <<"p", "a", "t", "t", "e", "r", "n", "_", "c", "o", "n", "d", "i", "t", "i", "o", "n">>)
           /\ category = "Instance Threat Pattern Evaluation"
                  <=> /\ Contains(stem, <<"i", "n", "s", "t", "a", "n", "c", "e", "_", "t", "h", "r", "e", "a", "t", "_", "p", "a", "t", "t", "e", "r", "n">>)
                      /\ ~Contains(stem, <<"p", "a", "t", "t", "e", "r", "n", "_", "c", "o", "n", "d", "i", "t", "i", "o", "n">>)

\* A file of the sub-area whose stem is a key of the table got the catch-all.
C7_Witness ==
    /\ InThreatPattern(file_path)
    /\ Stem(file_path) \in DOMAIN category_map
    /\ category = "Threat Pattern Management"

\* The last segment of the visited path without its ".go".
BaseName(path) ==
    LET parts == Parts(path)
        name == parts[Len(parts)]
    IN SubSeq(name, 1, Len(name) - 3)

\* C8: outside the sub-area the category is the table's label for a base name
\* that is exactly a key, and "Miscellaneous" for every other base name.
C8_TableOrMiscellaneous ==
    (file_path # <<>> /\ ~InThreatPattern(file_path)) =>
        LET base == BaseName(file_path)
        IN IF \E key \in DOMAIN category_map : key = base
           THEN category = category_map[base]
           ELSE category = "Miscellaneous"

\* A base name that contains a key without being one got "Miscellaneous".
C8_Witness ==
    /\ file_path # <<>>
    /\ ~InThreatPattern(file_path)
    /\ BaseName(file_path) \notin DOMAIN category_map
    /\ \E key \in DOMAIN category_map : Contains(BaseName(file_path), key)
    /\ category = "Miscellaneous"

\* C9: every processed file with records has exactly one entry in the index,
\* in the bucket of its category and under its relative path, holding its
\* records as extracted; so there are as many buckets as categories of such
\* files, and the total count is the sum of the processed files' records.
C9_EveryFileExactlyOnce ==
    LET contrib == Contributing(Processed)
    IN /\ \A e \in contrib :
              /\ Cardinality({c \in DOMAIN categories :
                                  RelOf(e) \in DOMAIN categories[c]}) = 1
              /\ CategoryOf[e] \in DOMAIN categories
              /\ RelOf(e) \in DOMAIN categories[CategoryOf[e]]
              /\ categories[CategoryOf[e]][RelOf(e)] = RecordsIn[tree[e]]
       /\ Cardinality(DOMAIN categories) = Cardinality({CategoryOf[e] : e \in contrib})
       /\ TotalFunctions(categories)
              = SumOver(Processed, [e \in Processed |-> Len(RecordsIn[tree[e]])])

\* Two files: one in "Domain Management" with two functions, one in
\* "Miscellaneous" with one; two buckets and a total of three.
C9_Witness ==
    /\ pc = "done"
    /\ DOMAIN categories = {"Domain Management", "Miscellaneous"}
    /\ \E p \in DOMAIN categories["Domain Management"] :
           Len(categories["Domain Management"][p]) = 2
    /\ \E p \in DOMAIN categories["Miscellaneous"] :
           Len(categories["Miscellaneous"][p]) = 1
    /\ TotalFunctions(categories) = 3

\* The index as a function of the tree alone.
IndexOf(t) ==
    LET contrib == {e \in DOMAIN t : IsServiceFile(e.file) /\ RecordsIn[t[e]] # <<>>}
    IN [c \in {CategoryOf[e] : e \in contrib} |->
           [p \in {RelOf(e) : e \in {x \in contrib : CategoryOf[x] = c}} |->
               RecordsIn[t[CHOOSE e \in contrib : RelOf(e) = p]]]]

\* C10: whatever the order in which the files were processed, the returned
\* index is the same mapping, and the records of every file entry are in
\* source order.
C10_OrderIndependent ==
    pc = "done" =>
        /\ categories = IndexOf(tree)
        /\ \A c \in DOMAIN categories :
               \A p \in DOMAIN categories[c] :
                   \A m, n \in 1..Len(categories[c][p]) :
                       m < n => categories[c][p][m].line_number
                                    < categories[c][p][n].line_number

\* Two files with different records ended in the same bucket.
C10_Witness ==
    /\ pc = "done"
    /\ \E c \in DOMAIN categories :
           \E p, q \in DOMAIN categories[c] :
               p # q /\ categories[c][p] # categories[c][q]

\* C11: a file that cannot be read is not fatal.  The step that processes it
\* gets the empty list from extract_go_functions, leaves the index as it was
\* and leaves the walk going with every other file still to come; and the
\* returned index holds every readable file with records, whatever unreadable
\* files the tree holds.
C11_ReadFailureIsNotFatal ==
    /\ [][\A e \in remaining \ remaining' :
              (IsServiceFile(e.file) /\ ~tree[e].ok) =>
                  /\ functions' = <<>>
                  /\ categories' = categories
                  /\ remaining' = remaining \ {e}
                  /\ pc' = "walk"]_vars
    /\ [](pc = "done" =>
              \A e \in DOMAIN tree :
                  (IsServiceFile(e.file) /\ tree[e].ok /\ RecordsIn[tree[e]] # <<>>) =>
                      /\ CategoryOf[e] \in DOMAIN categories
                      /\ RelOf(e) \in DOMAIN categories[CategoryOf[e]]
                      /\ categories[CategoryOf[e]][RelOf(e)] = RecordsIn[tree[e]])

\* An unreadable file was the last one processed: the index still holds the
\* entry made before it and nothing for the file itself.
\* An unreadable file was visited and left no entry, and the file visited
\* after it put its records in the index.
C11_Witness ==
    /\ pc = "walk"
    /\ functions # <<>>
    /\ \E e \in Processed :
           /\ IsServiceFile(e.file)
           /\ ~tree[e].ok
           /\ file_path # PathJoin(e.root, e.file)
           /\ \A c \in DOMAIN categories : RelOf(e) \notin DOMAIN categories[c]
    /\ \E e \in Processed :
           /\ tree[e].ok
           /\ file_path = PathJoin(e.root, e.file)
           /\ categories[CategoryOf[e]][RelOf(e)] = functions

\* The line on which the parenthesis depth of the declaration that starts at
\* idx first returns to zero; -1 when it never does.
ClosingLine(ls, idx) ==
    LET closed == {k \in idx..(Len(ls) - 1) : Depth(ls, idx, k) = 0}
    IN IF closed = {} THEN -1
       ELSE CHOOSE k \in closed : \A m \in closed : k <= m

\* After line c come only blank lines and then a line holding just '{'.
BraceOnOwnLine(ls, c) ==
    \E b \in (c + 1)..(Len(ls) - 1) :
        /\ Strip(At(ls, b)) = <<"{">>
        /\ \A m \in (c + 1)..(b - 1) : IsBlankLine(At(ls, m))

\* The trimmed lines idx..c, one space between them.
RECURSIVE TrimmedLines(_, _, _)
TrimmedLines(ls, idx, c) ==
    IF c < idx THEN <<>>
    ELSE IF c = idx THEN Strip(At(ls, idx))
    ELSE TrimmedLines(ls, idx, c - 1) \o <<" ">> \o Strip(At(ls, c))

\* Some line of idx..(c - 1) holds a '{'.
BraceBeforeClosing(ls, idx, c) ==
    \E k \in idx..(c - 1) : HasChar(At(ls, k), "{")

\* What C12 says the signature of a record is, given the line c that closes
\* the parentheses of its declaration.
SignatureThrough(ls, idx, c, sig) ==
    LET text == TrimmedLines(ls, idx, c)
    IN /\ (~EndsWith(text, <<"{">>) /\ BraceOnOwnLine(ls, c)) =>
              sig = Normalized(text)
       /\ EndsWith(text, <<"{">>) =>
              sig = Normalized(UpToFinalBrace(text))

\* C12 as stated: when the parameter list of a declaration spans several
\* lines, the signature is the whitespace-normalized text of the lines from
\* the `func` line through the line that closes the parentheses, without the
\* brace that ends that line or stands on a later line of its own.
C12_SignatureThroughClosingLine ==
    pc = "done" =>
        \A r \in Records :
            LET idx == r.line_number - 1
                c == ClosingLine(lines, idx)
            IN c > idx => SignatureThrough(lines, idx, c, r.signature)

\* The same statement for the declarations with no '{' on a line before the
\* one that closes the parentheses: for these it holds.
C12_HoldsWithoutEarlierBrace ==
    pc = "done" =>
        \A r \in Records :
            LET idx == r.line_number - 1
                c == ClosingLine(lines, idx)
            IN (c > idx /\ ~BraceBeforeClosing(lines, idx, c)) =>
                   SignatureThrough(lines, idx, c, r.signature)

\* A record whose brace stands on a line of its own after a blank line.
C12_BraceOnLaterLine ==
    /\ pc = "done"
    /\ \E r \in Records :
           LET idx == r.line_number - 1
               c == ClosingLine(lines, idx)
           IN /\ c > idx
              /\ ~BraceBeforeClosing(lines, idx, c)
              /\ ~EndsWith(Strip(At(lines, c)), <<"{">>)
              /\ BraceOnOwnLine(lines, c)
              /\ IsBlankLine(At(lines, c + 1))

\* A record whose closing line ends in '{'.
C12_BraceOnClosingLine ==
    /\ pc = "done"
    /\ \E r \in Records :
           LET idx == r.line_number - 1
               c == ClosingLine(lines, idx)
           IN /\ c > idx
              /\ ~BraceBeforeClosing(lines, idx, c)
              /\ EndsWith(Strip(At(lines, c)), <<"{">>)

\* The last candidate line above line idx; -1 when there is none.
PrevCandidate(ls, idx) ==
    LET above == {k \in 0..(idx - 1) : IsCandidate(Strip(At(ls, k)))}
    IN IF above = {} THEN -1
       ELSE CHOOSE k \in above : \A m \in above : m <= k

\* C13: two declarations never share documentation.  The documentation of
\* every record is made of the comment lines of a stretch of lines that starts
\* strictly below the previous candidate line and ends right above the
\* record's own line, so the stretches of two records are disjoint and no
\* comment line is attached to two records.
C13_NoSharedDocumentation ==
    pc = "done" =>
        \A r \in Records :
            LET idx == r.line_number - 1
                prev == PrevCandidate(lines, idx)
            IN \E s \in (prev + 1)..idx :
                   r.documentation = CommentTexts(SubSeq(lines, s + 1, idx))

\* A documented declaration with another declaration on the very next line,
\* which took no documentation.
C13_Witness ==
    /\ pc = "done"
    /\ \E r1, r2 \in Records :
           /\ r2.line_number = r1.line_number + 1
           /\ r1.documentation # <<>>
           /\ r2.documentation = <<>>

\* A line that matches the candidate pattern: trimmed, it is `func `, any
\* further whitespace, then a capital letter.
MatchesPattern(raw) ==
    LET line == Strip(raw)
    IN /\ StartsWith(line, <<"f", "u", "n", "c", " ">>)
       /\ LStrip(From(line, 5)) # <<>>
       /\ Head(LStrip(From(line, 5))) \in CapitalLetters

\* The 1-based numbers of the lines among the first n that match the pattern.
CandidateNumbers(ls, n) == {k \in 1..n : MatchesPattern(ls[k])}

\* C14: the records correspond one-to-one and in order with the lines that
\* match the candidate pattern.  Once the first i lines are scanned there are
\* as many records as candidate lines among them, every line_number is the
\* number of such a line, and the line numbers are strictly increasing; at
\* the return this is so for the whole text.
C14_OneRecordPerCandidate ==
    /\ i <= Len(lines)
    /\ pc = "done" => i = Len(lines)
    /\ Len(functions) = Cardinality(CandidateNumbers(lines, i))
    /\ \A n \in 1..Len(functions) :
           functions[n].line_number \in CandidateNumbers(lines, i)
    /\ \A n \in 1..(Len(functions) - 1) :
           functions[n].line_number < functions[n + 1].line_number

\* A text with a line that is no candidate, a complete declaration and a
\* declaration that is never closed gave a record for each of the two.
C14_Witness ==
    /\ pc = "done"
    /\ Len(functions) = 2
    /\ Len(lines) > 2
    /\ \E r \in Records : Unclosed(lines, r.line_number - 1)
    /\ \E r \in Records : SingleLineDecl(LineOf(r))

====
